---------------------------- MODULE Spec2Model ----------------------------
(***************************************************************************)
(* pginspector, foreign-key-aware extraction (src/old/main.go).            *)
(*                                                                         *)
(* The model follows main(): a schema graph (resSet.Tables) is registered, *)
(* traverseTables walks the database from a seed row, accumulating rows in *)
(* the package-level fullContents and consulting the package-level         *)
(* visited list, and the INSERT statements are printed in the order given  *)
(* by DetermineInsertTableOrder.  The recursion of traverseTables is an    *)
(* explicit call stack; a frame's pc says which loop it is in.             *)
(*                                                                         *)
(* Database values are numbers (the n-th value of the column's type);      *)
(* every conversion to text is computed as the code computes it, on        *)
(* strings.                                                                *)
(***************************************************************************)
EXTENDS Integers, Sequences, FiniteSets, TLC

VARIABLES
    resSet,        \* fullInfo.Tables, in registration order
    db,            \* the database contents
    seed,          \* the arguments of the first traverseTables call
    stack,         \* the pending traverseTables calls, innermost last
    fullContents,  \* package-level accumulation, one entry per table
    visited,       \* package-level list of identifiers already followed
    pc,            \* "traverse", "done", "panic" or "overflow"
    outputs,       \* the statements printed by each completed extraction
    fetches,       \* history: the queries of the extraction under way
    accumulated,   \* history: how each accumulated row was decoded
    added,         \* history: the AddTable calls made on the schema graph
    tableOrdering, \* the result of DetermineInsertTableOrder, once called
    cfg,           \* generate: cfg.SchemaConfig, the configuration file
    catalog,       \* generate: the table columns the database lists per schema
    outputBuffer,  \* generate: the queries written so far, header first
    sortedSchemaNames, \* generate: the schema names after sort.Strings
    schemaIdx,     \* generate: position of the loop over sortedSchemaNames
    generated,     \* the buffers of the generate calls that returned nil
    cancelRequested \* whether the caller has asked the extraction to stop

\* the variables of the schema-graph operations taken on their own
regVars == <<added, tableOrdering>>

\* the variables of the query generator
genVars == <<cfg, catalog, outputBuffer, sortedSchemaNames, schemaIdx,
             generated>>

\* what the caller of the program does on its own
envVars == <<cancelRequested>>

vars == <<resSet, db, seed, stack, fullContents, visited, pc, outputs,
          fetches, accumulated, regVars, genVars, envVars>>

---------------------------------------------------------------------------
(* Bounds of the model.                                                    *)

\* rows of a referenced table (manufacturer, model)
MaxParents == 1
\* rows of the vehicle table
MaxVehicles == 2
\* rows of the self-referencing node table
MaxNodes == 2
\* rows of each of the two mutually referencing tables
MaxPairRows == 1
\* frames the goroutine stack holds before the runtime aborts the process
MaxDepth == 10
\* extractions run one after the other in one process
MaxRuns == 2
\* AddTable calls made on one schema graph
MaxCalls == 3

\* Go's nil / SQL NULL; every stored value is >= 1
NULL == 0

\* the ids of a table with uuid keys start at a multiple of Stride
Stride == MaxParents + MaxVehicles + 1

IdUniverse == 1..(3 * Stride + MaxNodes + MaxPairRows)

---------------------------------------------------------------------------
(* Text forms of values.                                                   *)

Digit == <<"0", "1", "2", "3", "4", "5", "6", "7", "8", "9">>

RECURSIVE Decimal(_)
\* fmt.Sprintf("%v", n) of an integer
Decimal(n) == IF n < 10 THEN Digit[n + 1]
              ELSE Decimal(n \div 10) \o Digit[(n % 10) + 1]

\* uuid.UUID.String(): the canonical 36-character form of the n-th uuid
UuidString(n) == "00000000-0000-0000-0000-0000000000" \o
                 (IF n < 10 THEN "0" ELSE "") \o Decimal(n)

\* the n-th text value
TextOf(n) == "txt" \o Decimal(n)

\* time.Time.Format("2006-01-02T15:04:05.000Z") of the n-th instant
TimeFormat(n) == "2006-01-02T15:04:" \o (IF n < 10 THEN "0" ELSE "") \o
                 Decimal(n) \o ".000Z"

\* json.Marshal of the n-th decoded json document
JsonMarshal(n) == "{\"k\":" \o Decimal(n) \o "}"

NilString == "<<<<<<<<<<<nil>>>>>>>>>>"
TimestampString == "<timestamp>"

TextTypes == {"text", "character varying", "json"}
TimestampTypes == {"timestamp with time zone", "timestamp without time zone"}

\* fmt.Sprintf("%+v", v) of the Go value the driver hands back for a column
Sprint(pgTypeName, v) ==
    CASE pgTypeName \in {"text", "character varying"} -> TextOf(v)
      [] pgTypeName = "uuid" -> UuidString(v)
      [] pgTypeName \in TimestampTypes \cup {"timestamp"} -> TimeFormat(v)
      [] OTHER -> Decimal(v)

AsStringFromValue(pgTypeName, value) ==
    IF value = NULL THEN NilString
    ELSE CASE pgTypeName \in TextTypes -> TextOf(value)
           [] pgTypeName = "uuid" -> UuidString(value)
           [] pgTypeName \in TimestampTypes -> TimestampString
           [] pgTypeName = "integer" -> Decimal(value)
           [] OTHER -> ""

contains(s, e) == \E k \in 1..Len(s) : s[k] = e

RECURSIVE Join(_, _)
\* strings.Join
Join(s, sep) == IF Len(s) = 0 THEN ""
                ELSE IF Len(s) = 1 THEN s[1]
                ELSE s[1] \o sep \o Join(Tail(s), sep)

---------------------------------------------------------------------------
(* The schema graph: InspectedColumn, InspectedTable, ResultSet.           *)

Column(name, type, toTable, toColumn, ordinal) ==
    [Name |-> name, Type |-> type, PointsToTable |-> toTable,
     PointsToColumn |-> toColumn, OrdinalPosition |-> ordinal]

\* CREATE TABLE manufacturer / model / vehicle, as information_schema
\* reports their columns; the keys are uuid there, and serial integers in
\* the other variant considered
ManufacturerTable(keyType) ==
    [Name |-> "manufacturer",
     Columns |-> << Column("id", keyType, "", "", 1),
                    Column("name", "character varying", "", "", 2),
                    Column("created_at", "timestamp without time zone", "", "", 3),
                    Column("updated_at", "timestamp without time zone", "", "", 4) >>]

ModelTable(keyType) ==
    [Name |-> "model",
     Columns |-> << Column("id", keyType, "", "", 1),
                    Column("name", "character varying", "", "", 2),
                    Column("created_at", "timestamp without time zone", "", "", 3),
                    Column("updated_at", "timestamp without time zone", "", "", 4) >>]

VehicleTable(keyType) ==
    [Name |-> "vehicle",
     Columns |-> << Column("id", keyType, "", "", 1),
                    Column("created_at", "timestamp without time zone", "", "", 2),
                    Column("updated_at", "timestamp without time zone", "", "", 3),
                    Column("make", keyType, "manufacturer", "id", 4),
                    Column("model", keyType, "model", "id", 5),
                    Column("year", "integer", "", "", 6),
                    Column("vin", "character varying", "", "", 7) >>]

\* a parent-pointer hierarchy with a nullable self-referencing foreign key
NodeTable(keyType) ==
    [Name |-> "node",
     Columns |-> << Column("id", keyType, "", "", 1),
                    Column("parent", keyType, "node", "id", 2),
                    Column("note", "jsonb", "", "", 3),
                    Column("seen_at", "timestamp with time zone", "", "", 4) >>]

\* two tables that reference each other
LeftTable(keyType) ==
    [Name |-> "a",
     Columns |-> << Column("id", keyType, "", "", 1),
                    Column("b", keyType, "b", "id", 2) >>]

RightTable(keyType) ==
    [Name |-> "b",
     Columns |-> << Column("id", keyType, "", "", 1),
                    Column("a", keyType, "a", "id", 2) >>]

KeyTypes == {"integer", "text"}

VehicleKeyTypes == {"uuid", "integer"}

\* every order in which the tables of s can be registered
RegistrationOrders(s) ==
    { p \in [1..Len(s) -> 1..Len(s)] : \A i, j \in 1..Len(s) : i # j => p[i] # p[j] }

Registered(s, p) == [i \in 1..Len(s) |-> s[p[i]]]

GetTableIndexByName(rs, name) ==
    IF \E i \in 1..Len(rs) : rs[i].Name = name
    THEN CHOOSE i \in 1..Len(rs) :
             /\ rs[i].Name = name
             /\ \A j \in 1..(i - 1) : rs[j].Name # name
    ELSE -1

\* the index of the first column of table t that points to tableName, 0 for
\* the nil pointer
HasPointerToTable(t, tableName) ==
    IF \E i \in 1..Len(t.Columns) : t.Columns[i].PointsToTable = tableName
    THEN CHOOSE i \in 1..Len(t.Columns) :
             /\ t.Columns[i].PointsToTable = tableName
             /\ \A j \in 1..(i - 1) : t.Columns[j].PointsToTable # tableName
    ELSE 0

RECURSIVE ListTablesPointedTo(_)
ListTablesPointedTo(cols) ==
    IF Len(cols) = 0 THEN <<>>
    ELSE (IF cols[1].PointsToTable # "" THEN <<cols[1].PointsToTable>> ELSE <<>>)
         \o ListTablesPointedTo(Tail(cols))

RECURSIVE OrderFrom(_, _, _)
\* the loop of DetermineInsertTableOrder from table i on
OrderFrom(rs, i, res) ==
    IF i > Len(rs) THEN res
    ELSE LET t == rs[i]
             pointsTo == ListTablesPointedTo(t.Columns)
             allDepsAvailable ==
                 \A k \in 1..Len(pointsTo) : contains(pointsTo, pointsTo[k])
         IN  IF Len(pointsTo) = 0 /\ ~contains(res, t.Name)
             THEN OrderFrom(rs, i + 1, Append(res, t.Name))
             ELSE IF allDepsAvailable
                  THEN OrderFrom(rs, i + 1, Append(res, t.Name))
                  ELSE OrderFrom(rs, i + 1, res)

DetermineInsertTableOrder(rs) == OrderFrom(rs, 1, <<>>)

---------------------------------------------------------------------------
(* The database: db[t] is the sequence of the rows of table t in the order *)
(* of their ids; a row maps each column name to its value.                 *)

\* the id of the k-th row of a table: serial integers (and the text keys)
\* repeat from table to table, uuids do not
IdOf(keyType, slot, k) == IF keyType = "uuid" THEN slot * Stride + k ELSE k

ParentRow(id, k) == [id |-> id, name |-> k, created_at |-> k, updated_at |-> k]

VehicleRow(id, k, fk) ==
    [id |-> id, created_at |-> k, updated_at |-> k, make |-> fk[1],
     model |-> fk[2], year |-> k, vin |-> k]

NodeRow(k, parent, payload) ==
    [id |-> k, parent |-> parent, note |-> IF payload THEN k ELSE NULL,
     seen_at |-> IF payload THEN k ELSE NULL]

\* every manufacturer and model exists; a vehicle references NULL or one of
\* them; the vehicles after the second reference what the second does
VehicleDatabases(keyType) ==
    LET makes == {NULL} \cup { IdOf(keyType, 0, k) : k \in 1..MaxParents }
        models == {NULL} \cup { IdOf(keyType, 1, k) : k \in 1..MaxParents }
    IN  { [manufacturer |-> [k \in 1..MaxParents |->
                                ParentRow(IdOf(keyType, 0, k), k)],
           model |-> [k \in 1..MaxParents |-> ParentRow(IdOf(keyType, 1, k), k)],
           vehicle |-> [k \in 1..n |->
                           VehicleRow(IdOf(keyType, 2, k), k,
                                      fk[IF k = 1 THEN 1 ELSE 2])]] :
          n \in 0..MaxVehicles, fk \in [1..2 -> makes \X models] }

NodeDatabases ==
    { [node |-> [k \in 1..n |-> NodeRow(k, parent[k], payload)]] :
      n \in 0..MaxNodes,
      parent \in [1..MaxNodes -> 0..MaxNodes],
      payload \in BOOLEAN }

PairDatabases ==
    { [a |-> [k \in 1..na |-> [id |-> k, b |-> fa[k]]],
       b |-> [k \in 1..nb |-> [id |-> k, a |-> fb[k]]]] :
      na \in 0..MaxPairRows, nb \in 0..MaxPairRows,
      fa \in [1..MaxPairRows -> 0..MaxPairRows],
      fb \in [1..MaxPairRows -> 0..MaxPairRows] }

\* no dangling reference: the database enforces its foreign keys
ForeignKeysHold(rs, d) ==
    \A i \in 1..Len(rs) : \A c \in 1..Len(rs[i].Columns) :
        LET col == rs[i].Columns[c] IN
        col.PointsToTable # "" =>
            \A k \in 1..Len(d[rs[i].Name]) :
                \/ d[rs[i].Name][k][col.Name] = NULL
                \/ \E j \in 1..Len(d[col.PointsToTable]) :
                       d[col.PointsToTable][j][col.PointsToColumn]
                           = d[rs[i].Name][k][col.Name]

---------------------------------------------------------------------------
(* The query of traverseTables:                                            *)
(*   SELECT * FROM t WHERE c = 'identifier' ORDER BY id DESC LIMIT 1       *)

\* the text the database prints, and accepts as input, for a value
PgText(pgTypeName, v) ==
    CASE pgTypeName \in {"text", "character varying"} -> TextOf(v)
      [] pgTypeName = "uuid" -> UuidString(v)
      [] pgTypeName \in TimestampTypes \cup {"timestamp"} -> TimeFormat(v)
      [] pgTypeName \in {"json", "jsonb"} -> JsonMarshal(v)
      [] OTHER -> Decimal(v)

PgTypes ==
    {"text", "character varying", "uuid", "integer", "json", "jsonb",
     "timestamp", "timestamp with time zone", "timestamp without time zone"}

\* the literals the database reads as a value of each type
ValidTexts == [t \in PgTypes |-> { PgText(t, v) : v \in IdUniverse }]

\* whether the database can read the quoted literal s as a value of the type
ValidInput(pgTypeName, s) ==
    \/ pgTypeName \in {"text", "character varying"}
    \/ s \in ValidTexts[pgTypeName]

ColumnNames(t) == { t.Columns[i].Name : i \in 1..Len(t.Columns) }

GetColumnByName(t, name) ==
    t.Columns[CHOOSE i \in 1..Len(t.Columns) : t.Columns[i].Name = name]

\* conn.Query returns an error: unknown relation or column, or a literal the
\* column's type cannot read
QueryFails(rs, fromTable, identifyingColumnName, identifier) ==
    LET idx == GetTableIndexByName(rs, fromTable) IN
    \/ idx = -1
    \/ identifyingColumnName \notin ColumnNames(rs[idx])
    \/ "id" \notin ColumnNames(rs[idx])
    \/ ~ValidInput(GetColumnByName(rs[idx], identifyingColumnName).Type, identifier)

Matching(rs, d, fromTable, identifyingColumnName, identifier) ==
    LET type == GetColumnByName(rs[GetTableIndexByName(rs, fromTable)],
                                identifyingColumnName).Type
    IN  { k \in 1..Len(d[fromTable]) :
            /\ d[fromTable][k][identifyingColumnName] # NULL
            /\ PgText(type, d[fromTable][k][identifyingColumnName]) = identifier }

\* the id of the row rows.Next() yields, 0 when there is none
QueryRow(rs, d, fromTable, identifyingColumnName, identifier) ==
    LET m == Matching(rs, d, fromTable, identifyingColumnName, identifier) IN
    IF m = {} THEN 0 ELSE CHOOSE k \in m : \A j \in m : j <= k

\* rows.FieldDescriptions(): the columns in their ordinal order
FieldNames(t) ==
    [o \in 1..Len(t.Columns) |->
        t.Columns[CHOOSE i \in 1..Len(t.Columns) :
                      t.Columns[i].OrdinalPosition = o].Name]

---------------------------------------------------------------------------
(* The row decoder of traverseTables.                                      *)

TypeSwitch(pgTypeName, v) ==
    CASE pgTypeName = "uuid" -> "'" \o UuidString(v) \o "'"
      [] pgTypeName \in TimestampTypes \cup {"timestamp"} ->
             "'" \o TimeFormat(v) \o "'"
      [] pgTypeName \in {"json", "jsonb"} -> "'" \o JsonMarshal(v) \o "'"
      [] OTHER -> "'" \o Sprint(pgTypeName, v) \o "'"

BranchOf(pgTypeName) ==
    CASE pgTypeName = "uuid" -> "uuid"
      [] pgTypeName \in TimestampTypes \cup {"timestamp"} -> "timestamp"
      [] pgTypeName \in {"json", "jsonb"} -> "json"
      [] OTHER -> "default"

\* the decoding of one column without its test of data == nil
DecodeColumnNoNilCheck(pgTypeName, value) ==
    [type |-> pgTypeName, value |-> value, branch |-> BranchOf(pgTypeName),
     literal |-> TypeSwitch(pgTypeName, value)]

\* one iteration of the loop over ifValPrts: the literal appended to
\* rowStringVals and the branch that produced it
DecodeColumn(pgTypeName, value) ==
    IF value = NULL
    THEN [type |-> pgTypeName, value |-> value, branch |-> "nil",
          literal |-> "NULL"]
    ELSE [type |-> pgTypeName, value |-> value, branch |-> BranchOf(pgTypeName),
          literal |-> TypeSwitch(pgTypeName, value)]

RECURSIVE DecodeRow(_, _, _)
\* the loop over ifValPrts from column i on
DecodeRow(columns, ifVals, i) ==
    IF i > Len(columns) THEN <<>>
    ELSE <<DecodeColumn(columns[i].Type, ifVals[i])>>
         \o DecodeRow(columns, ifVals, i + 1)

RECURSIVE Literals(_)
\* rowStringVals
Literals(decoded) ==
    IF Len(decoded) = 0 THEN <<>>
    ELSE <<decoded[1].literal>> \o Literals(Tail(decoded))

RECURSIVE Scan(_, _, _)
\* rows.Scan(ifValPrts...): ifVals from field i on; every ifVals[i] stays nil
\* when rows.Next() yields no row (row = 0)
Scan(d, fields, i) ==
    IF i > Len(fields) THEN <<>>
    ELSE <<d[fields[i]]>> \o Scan(d, fields, i + 1)

\* the index getOrCreateTableContents returns
ContentsIndex(fc, tableName) ==
    IF \E i \in 1..Len(fc) : fc[i].TableName = tableName
    THEN CHOOSE i \in 1..Len(fc) :
             /\ fc[i].TableName = tableName
             /\ \A j \in 1..(i - 1) : fc[j].TableName # tableName
    ELSE Len(fc) + 1

\* a new entry for every call, whether or not the table has one
createTableContents(fc, tableName) ==
    Append(fc, [TableName |-> tableName, InsertColumnNames |-> <<>>,
                ValuesRows |-> <<>>])

getOrCreateTableContents(fc, tableName) ==
    IF \E i \in 1..Len(fc) : fc[i].TableName = tableName
    THEN fc
    ELSE Append(fc, [TableName |-> tableName, InsertColumnNames |-> <<>>,
                     ValuesRows |-> <<>>])

---------------------------------------------------------------------------
(* traverseTables, one frame of the stack per pending call.                *)

\* a Go map with no entry
EmptyMap == [x \in {} |-> NULL]

\* resultData[name]: nil when the map has no such key
MapGet(m, name) == IF name \in DOMAIN m THEN m[name] ELSE NULL

Frame(fromTable, identifyingColumnName, identifier, via) ==
    [fromTable |-> fromTable, identifyingColumnName |-> identifyingColumnName,
     identifier |-> identifier, pc |-> "fetch", i |-> 1,
     resultData |-> EmptyMap, via |-> via]

Top == stack[Len(stack)]

Tabl(f) == resSet[GetTableIndexByName(resSet, f.fromTable)]

\* the first loop passing over the current table itself
NextForwardNotSelf(f) ==
    LET hits == { i \in f.i..Len(resSet) :
                    /\ resSet[i].Name # f.fromTable
                    /\ HasPointerToTable(resSet[i], f.fromTable) # 0 }
    IN  IF f.pc # "forward" \/ hits = {} THEN 0
        ELSE CHOOSE i \in hits : \A j \in hits : i <= j

\* the next table of the first loop that points to f's table, 0 when the
\* loop is over
NextForward(f) ==
    LET hits == { i \in f.i..Len(resSet) :
                    HasPointerToTable(resSet[i], f.fromTable) # 0 }
    IN  IF f.pc # "forward" \/ hits = {} THEN 0
        ELSE CHOOSE i \in hits : \A j \in hits : i <= j

\* the second loop without its test of data == nil
FollowedNoNilCheck(f, col, vis) ==
    /\ col.PointsToTable # "" /\ col.PointsToColumn # ""
    /\ ~contains(vis, AsStringFromValue(col.Type, MapGet(f.resultData, col.Name)))

\* the second loop skips a column that is no foreign key, whose value is nil
\* or whose identifier is in visited
Followed(f, col, vis) ==
    /\ col.PointsToTable # "" /\ col.PointsToColumn # ""
    /\ MapGet(f.resultData, col.Name) # NULL
    /\ ~contains(vis, AsStringFromValue(col.Type, MapGet(f.resultData, col.Name)))

\* the next column the second loop follows, 0 when the loop is over
NextBackward(f) ==
    LET from == IF f.pc = "backward" THEN f.i ELSE 1
        hits == { j \in from..Len(Tabl(f).Columns) :
                    Followed(f, Tabl(f).Columns[j], visited) }
    IN  IF hits = {} THEN 0 ELSE CHOOSE j \in hits : \A k \in hits : j <= k

InForward(f) == f.pc = "forward" /\ NextForward(f) # 0

InBackward(f) == f.pc = "backward" \/ (f.pc = "forward" /\ NextForward(f) = 0)

Running == pc = "traverse" /\ stack # <<>>

\* the failed query taken for an empty result: the call returns
FetchIgnoresError ==
    /\ Running /\ Top.pc = "fetch"
    /\ QueryFails(resSet, Top.fromTable, Top.identifyingColumnName, Top.identifier)
    /\ stack' = SubSeq(stack, 1, Len(stack) - 1)
    /\ fetches' = Append(fetches, [table |-> Top.fromTable,
                                   column |-> Top.identifyingColumnName,
                                   identifier |-> Top.identifier,
                                   via |-> Top.via, row |-> 0])
    /\ UNCHANGED <<regVars, genVars, envVars>>
    /\ UNCHANGED <<resSet, db, seed, fullContents, visited, pc, outputs,
                   accumulated>>

\* conn.Query fails, or the table is not registered: panic
FetchPanics ==
    /\ Running /\ Top.pc = "fetch"
    /\ QueryFails(resSet, Top.fromTable, Top.identifyingColumnName, Top.identifier)
    /\ pc' = "panic"
    /\ stack' = <<>>
    /\ fetches' = Append(fetches, [table |-> Top.fromTable,
                                   column |-> Top.identifyingColumnName,
                                   identifier |-> Top.identifier,
                                   via |-> Top.via, row |-> 0])
    /\ UNCHANGED <<regVars, genVars, envVars>>
    /\ UNCHANGED <<resSet, db, seed, fullContents, visited, outputs,
                   accumulated>>

\* the query, the scan and the decoding of the row, up to the append to
\* ValuesRows
Fetch ==
    /\ Running /\ Top.pc = "fetch"
    /\ ~QueryFails(resSet, Top.fromTable, Top.identifyingColumnName, Top.identifier)
    /\ \E f \in {Top} : \E tabl \in {Tabl(f)} :
       \E k \in {QueryRow(resSet, db, f.fromTable, f.identifyingColumnName,
                          f.identifier)} :
       \E resultData \in {IF k = 0 THEN EmptyMap ELSE db[f.fromTable][k]} :
       \E fields \in {FieldNames(tabl)} :
       \E ifVals \in {IF k = 0 THEN [i \in 1..Len(tabl.Columns) |-> NULL]
                       ELSE Scan(resultData, fields, 1)} :
       \E decoded \in {DecodeRow(tabl.Columns, ifVals, 1)} :
       \E rowStringVals \in {Literals(decoded)} :
       \E rowVal \in {Join(rowStringVals, ", ")} :
       \E colIdx \in {ContentsIndex(fullContents, f.fromTable)} :
           /\ fullContents' =
                 [getOrCreateTableContents(fullContents, f.fromTable)
                    EXCEPT ![colIdx].InsertColumnNames =
                               [i \in 1..Len(tabl.Columns) |-> tabl.Columns[i].Name],
                           ![colIdx].ValuesRows = Append(@, rowVal)]
           /\ stack' = [stack EXCEPT ![Len(stack)].pc = "forward",
                                     ![Len(stack)].i = 1,
                                     ![Len(stack)].resultData = resultData]
           /\ fetches' = Append(fetches, [table |-> f.fromTable,
                                          column |-> f.identifyingColumnName,
                                          identifier |-> f.identifier,
                                          via |-> f.via, row |-> k])
           /\ accumulated' = Append(accumulated,
                                    [table |-> f.fromTable, row |-> k,
                                     decoded |-> decoded])
    /\ UNCHANGED <<regVars, genVars, envVars>>
    /\ UNCHANGED <<resSet, db, seed, visited, pc, outputs>>

\* first loop: the call into the next table that points to the current one
ExpandForward ==
    /\ Running /\ InForward(Top) /\ Len(stack) < MaxDepth
    /\ LET f == Top
           i == NextForward(f)
           t == resSet[i]
           col == t.Columns[HasPointerToTable(t, f.fromTable)]
           ident == AsStringFromValue(col.Type, MapGet(f.resultData, col.PointsToColumn))
       IN  stack' = Append([stack EXCEPT ![Len(stack)].i = i + 1],
                           Frame(t.Name, col.Name, ident, "forward"))
    /\ UNCHANGED <<regVars, genVars, envVars>>
    /\ UNCHANGED <<resSet, db, seed, fullContents, visited, pc, outputs,
                   fetches, accumulated>>

\* second loop: the call into the table the next followed column points to
ExpandBackward ==
    /\ Running /\ InBackward(Top) /\ NextBackward(Top) # 0
    /\ Len(stack) < MaxDepth
    /\ LET f == Top
           j == NextBackward(f)
           col == Tabl(f).Columns[j]
           ident == AsStringFromValue(col.Type, MapGet(f.resultData, col.Name))
       IN  /\ visited' = Append(visited, ident)
           /\ stack' = Append([stack EXCEPT ![Len(stack)].pc = "backward",
                                            ![Len(stack)].i = j + 1],
                              Frame(col.PointsToTable, col.PointsToColumn, ident,
                                    "backward"))
    /\ UNCHANGED <<regVars, genVars, envVars>>
    /\ UNCHANGED <<resSet, db, seed, fullContents, pc, outputs, fetches,
                   accumulated>>

\* both loops are over: the call returns
Return ==
    /\ Running /\ InBackward(Top) /\ NextBackward(Top) = 0
    /\ stack' = SubSeq(stack, 1, Len(stack) - 1)
    /\ UNCHANGED <<regVars, genVars, envVars>>
    /\ UNCHANGED <<resSet, db, seed, fullContents, visited, pc, outputs,
                   fetches, accumulated>>

\* a further call does not fit the goroutine's stack: the runtime aborts
StackOverflow ==
    /\ Running /\ Len(stack) >= MaxDepth
    /\ InForward(Top) \/ (InBackward(Top) /\ NextBackward(Top) # 0)
    /\ pc' = "overflow"
    /\ UNCHANGED <<regVars, genVars, envVars>>
    /\ UNCHANGED <<resSet, db, seed, stack, fullContents, visited, outputs,
                   fetches, accumulated>>

---------------------------------------------------------------------------
(* main, after the traversal: the order and the statements.                *)

RECURSIVE ParenJoin(_)
\* "(r1),\n(r2)": the valueRows string
ParenJoin(rows) ==
    IF Len(rows) = 0 THEN ""
    ELSE "(" \o rows[1] \o ")" \o
         (IF Len(rows) = 1 THEN "" ELSE ",\n" \o ParenJoin(Tail(rows)))

Statement(tblInfo) ==
    LET quotedColumnNames ==
            [i \in 1..Len(tblInfo.InsertColumnNames) |->
                "\"" \o tblInfo.InsertColumnNames[i] \o "\""]
    IN  [TableName |-> tblInfo.TableName,
         InsertColumnNames |-> tblInfo.InsertColumnNames,
         ValuesRows |-> tblInfo.ValuesRows,
         stmt |-> "INSERT\nINTO \"public\".\"" \o tblInfo.TableName \o "\"(" \o
                  Join(quotedColumnNames, ",") \o ")\nVALUES\n" \o
                  ParenJoin(tblInfo.ValuesRows) \o "\n;"]

RECURSIVE StatementsFor(_, _)
\* the printing loop over tableOrdering and fullContents
StatementsFor(ordering, fc) ==
    IF Len(ordering) = 0 THEN <<>>
    ELSE LET matching == SelectSeq(fc, LAMBDA c : c.TableName = ordering[1])
         IN  [i \in 1..Len(matching) |-> Statement(matching[i])]
             \o StatementsFor(Tail(ordering), fc)

\* traverseTables has returned: the statements are printed
Emit ==
    /\ pc = "traverse" /\ stack = <<>>
    /\ outputs' = Append(outputs,
                         StatementsFor(DetermineInsertTableOrder(resSet), fullContents))
    /\ pc' = "done"
    /\ UNCHANGED <<regVars, genVars, envVars>>
    /\ UNCHANGED <<resSet, db, seed, stack, fullContents, visited, fetches,
                   accumulated>>

\* the same extraction is run again in the same process: fullContents and
\* visited are package-level variables and keep their contents
Again ==
    /\ pc = "done" /\ Len(outputs) < MaxRuns
    /\ stack' = <<Frame(seed.table, seed.column, seed.identifier, "seed")>>
    /\ pc' = "traverse"
    /\ fetches' = <<>>
    /\ UNCHANGED <<regVars, genVars, envVars>>
    /\ UNCHANGED <<resSet, db, seed, fullContents, visited, outputs,
                   accumulated>>

---------------------------------------------------------------------------
(* The specification.                                                      *)

\* the query generator is not running
GenIdle ==
    /\ cfg = <<>>
    /\ catalog = <<>>
    /\ outputBuffer = <<>>
    /\ sortedSchemaNames = <<>>
    /\ schemaIdx = 0
    /\ generated = <<>>

VehicleSchema(keyType) ==
    <<ManufacturerTable(keyType), ModelTable(keyType), VehicleTable(keyType)>>

Scenarios ==
    { [tables |-> VehicleSchema(sc[1]), db |-> sc[2]] :
        sc \in UNION { {kt} \X VehicleDatabases(kt) : kt \in VehicleKeyTypes } }
    \cup
    { [tables |-> <<NodeTable(kt)>>, db |-> d] : kt \in KeyTypes, d \in NodeDatabases }
    \cup
    { [tables |-> <<LeftTable(kt), RightTable(kt)>>, db |-> d] :
        kt \in KeyTypes, d \in PairDatabases }

\* the ids a seed may name: those of the table's rows and one that is absent
SeedIds(rows) == { rows[k].id : k \in 1..Len(rows) } \cup
                 { IF Len(rows) = 0 THEN 1 ELSE rows[Len(rows)].id + 1 }

Init ==
    /\ \E sc \in Scenarios :
         /\ ForeignKeysHold(sc.tables, sc.db)
         /\ db = sc.db
         /\ \E p \in RegistrationOrders(sc.tables) :
                resSet = Registered(sc.tables, p)
         /\ \E i \in 1..Len(sc.tables) :
            \E v \in SeedIds(sc.db[sc.tables[i].Name]) :
                seed = [table |-> sc.tables[i].Name, column |-> "id",
                        identifier |-> PgText(sc.tables[i].Columns[1].Type, v)]
    /\ stack = <<Frame(seed.table, seed.column, seed.identifier, "seed")>>
    /\ fullContents = <<>>
    /\ visited = <<>>
    /\ pc = "traverse"
    /\ outputs = <<>>
    /\ fetches = <<>>
    /\ accumulated = <<>>
    /\ added = <<>>
    /\ tableOrdering = <<>>
    /\ cancelRequested = FALSE
    /\ GenIdle

Next ==
    \/ Fetch
    \/ FetchPanics
    \/ ExpandForward
    \/ ExpandBackward
    \/ Return
    \/ StackOverflow
    \/ Emit
    \/ Again

Spec == Init /\ [][Next]_vars

\* the program runs whenever it can take a step
FairSpec == Spec /\ WF_vars(Next)

\* the caller asks the extraction under way to stop. traverseTables takes no
\* context and queries under context.Background(), which is never
\* cancelled: no step of the program reads the request
RequestCancel ==
    /\ pc = "traverse" /\ ~cancelRequested
    /\ cancelRequested' = TRUE
    /\ UNCHANGED <<resSet, db, seed, stack, fullContents, visited, pc, outputs,
                   fetches, accumulated, regVars, genVars>>

CancelNext ==
    \/ Next
    \/ RequestCancel

\* the extraction with a caller that may ask for cancellation
CancelSpec == Init /\ [][CancelNext]_vars

---------------------------------------------------------------------------
(* The schema graph on its own: AddTable and DetermineInsertTableOrder     *)
(* applied to tables registered in any order, duplicates included.         *)

\* CREATE TABLE person
PersonTable ==
    [Name |-> "person",
     Columns |-> << Column("id", "uuid", "", "", 1),
                    Column("name", "character varying", "", "", 2),
                    Column("created_at", "timestamp without time zone", "", "", 3),
                    Column("updated_at", "timestamp without time zone", "", "", 4) >>]

\* another description under the name person
PersonTableShort ==
    [Name |-> "person",
     Columns |-> << Column("id", "integer", "", "", 1) >>]

\* the tables a call of AddTable may be given
Candidates ==
    {PersonTable, PersonTableShort, ManufacturerTable("uuid"),
     VehicleTable("uuid"), LeftTable("integer"), RightTable("integer")}

\* AddTable without its loop over the registered names
AddTableNoCheck(tables, table) ==
    [Tables |-> Append(tables, table), panicked |-> FALSE]

\* rs.AddTable(table): the table list afterwards, and whether it panicked
AddTable(tables, table) ==
    IF \E i \in 1..Len(tables) : tables[i].Name = table.Name
    THEN [Tables |-> tables, panicked |-> TRUE]
    ELSE [Tables |-> Append(tables, table), panicked |-> FALSE]

\* one call of AddTable; a panic ends the process
Register ==
    /\ pc = "register" /\ Len(added) < MaxCalls
    /\ \E table \in Candidates :
         \E r \in {AddTable(resSet, table)} :
           /\ resSet' = r.Tables
           /\ pc' = IF r.panicked THEN "panic" ELSE pc
           /\ added' = Append(added, [table |-> table, before |-> resSet,
                                      after |-> r.Tables,
                                      panicked |-> r.panicked])
    /\ UNCHANGED <<db, seed, stack, fullContents, visited, outputs, fetches,
                   accumulated, tableOrdering, genVars, envVars>>

\* tableOrdering := fullInfo.DetermineInsertTableOrder()
Order ==
    /\ pc = "register"
    /\ tableOrdering' = DetermineInsertTableOrder(resSet)
    /\ pc' = "ordered"
    /\ UNCHANGED <<resSet, db, seed, stack, fullContents, visited, outputs,
                   fetches, accumulated, added, genVars, envVars>>

RegInit ==
    /\ resSet = <<>>
    /\ pc = "register"
    /\ added = <<>>
    /\ tableOrdering = <<>>
    /\ db = <<>>
    /\ seed = [table |-> "", column |-> "id", identifier |-> ""]
    /\ stack = <<>>
    /\ fullContents = <<>>
    /\ visited = <<>>
    /\ outputs = <<>>
    /\ fetches = <<>>
    /\ accumulated = <<>>
    /\ cancelRequested = FALSE
    /\ GenIdle

RegNext == Register \/ Order

RegSpec == RegInit /\ [][RegNext]_vars

---------------------------------------------------------------------------
(* The query generator: generate, generateGetAndListQueries and            *)
(* generateUpdateQueries.  A schema, table or column name is the sequence  *)
(* of its characters, so that sorting and ToCamel work on what they read.  *)

\* the characters of the names, in the order of their byte values
Alphabet ==
    <<"_", "a", "b", "c", "d", "e", "f", "g", "h", "i", "j", "k", "l", "m",
      "n", "o", "p", "q", "r", "s", "t", "u", "v", "w", "x", "y", "z">>

Upper ==
    <<"_", "A", "B", "C", "D", "E", "F", "G", "H", "I", "J", "K", "L", "M",
      "N", "O", "P", "Q", "R", "S", "T", "U", "V", "W", "X", "Y", "Z">>

Code(c) == CHOOSE i \in 1..Len(Alphabet) : Alphabet[i] = c

RECURSIVE Str(_)
\* the string a name spells
Str(name) == IF Len(name) = 0 THEN "" ELSE name[1] \o Str(Tail(name))

RECURSIVE Less(_, _)
\* a < b for Go strings: bytewise, a proper prefix first
Less(a, b) ==
    IF Len(b) = 0 THEN FALSE
    ELSE IF Len(a) = 0 THEN TRUE
    ELSE IF a[1] # b[1] THEN Code(a[1]) < Code(b[1])
    ELSE Less(Tail(a), Tail(b))

RECURSIVE Insert(_, _)
Insert(sorted, name) ==
    IF Len(sorted) = 0 THEN <<name>>
    ELSE IF Less(name, sorted[1]) THEN <<name>> \o sorted
    ELSE <<sorted[1]>> \o Insert(Tail(sorted), name)

\* the names left in the order the map iteration appended them
Unsorted(names) == names

RECURSIVE SortStrings(_)
\* sort.Strings
SortStrings(names) ==
    IF Len(names) = 0 THEN <<>>
    ELSE Insert(SortStrings(Tail(names)), names[1])

RECURSIVE CamelFrom(_, _)
CamelFrom(name, capNext) ==
    IF Len(name) = 0 THEN ""
    ELSE IF name[1] = "_" THEN CamelFrom(Tail(name), TRUE)
    ELSE (IF capNext THEN Upper[Code(name[1])] ELSE name[1])
         \o CamelFrom(Tail(name), FALSE)

\* strcase.ToCamel of a lower-case name with underscores
ToCamel(name) == CamelFrom(name, TRUE)

\* {{- if .Config.ProtoName }} proto-type={{ .Config.ProtoName }} {{- end }}
ProtoType(config) ==
    IF config.ProtoName = "" THEN "" ELSE " proto-type=" \o config.ProtoName

RECURSIVE ColumnList(_, _)
\* the range over .Columns that writes the column names
ColumnList(columns, index) ==
    IF index > Len(columns) THEN ""
    ELSE (IF index > 1 THEN "," ELSE "") \o "\n        " \o Str(columns[index])
         \o ColumnList(columns, index + 1)

RECURSIVE ArgList(_, _)
\* the range over .Columns that writes pggen.arg('<column>')
ArgList(columns, index) ==
    IF index > Len(columns) THEN ""
    ELSE (IF index > 1 THEN "," ELSE "") \o "\n        pggen.arg('"
         \o Str(columns[index]) \o "')" \o ArgList(columns, index + 1)

RECURSIVE CaseList(_, _)
\* the range over .Columns of the field-mask update
CaseList(columns, index) ==
    IF index > Len(columns) THEN ""
    ELSE (IF index > 1 THEN "," ELSE "") \o "\n        CASE\n        \tWHEN '"
         \o Str(columns[index])
         \o "' = ANY(pggen.arg('_field_mask')::text[]) THEN pggen.arg('"
         \o Str(columns[index]) \o "')\n        \tELSE " \o Str(columns[index])
         \o "\n        END" \o CaseList(columns, index + 1)

\* WHERE {{ .Config.PrimaryKey }} = pggen.arg('{{ .Config.PrimaryKey }}')
WhereKey(config) ==
    "WHERE " \o Str(config.PrimaryKey) \o " = pggen.arg('"
    \o Str(config.PrimaryKey) \o "')"

QualifiedName(t) == Str(t.Schema) \o "." \o Str(t.Name)

\* one written query: what it is, for which table, on which key, its text
Query(kind, t, text) ==
    [kind |-> kind, schema |-> t.Schema, table |-> t.Name,
     key |-> t.Config.PrimaryKey, text |-> text]

\* the two queries the first template writes for a table
SelectQueries(t) ==
    << Query("ByID", t,
             "\n\n-- name: Select" \o ToCamel(t.Name) \o "ByID :one"
             \o ProtoType(t.Config) \o "\nSELECT" \o ColumnList(t.Columns, 1)
             \o "\nFROM " \o QualifiedName(t) \o "\n" \o WhereKey(t.Config) \o ";"),
       Query("List", t,
             "\n\n-- name: Select" \o ToCamel(t.Name) \o "List :many"
             \o ProtoType(t.Config) \o "\nSELECT" \o ColumnList(t.Columns, 1)
             \o "\nFROM " \o QualifiedName(t) \o ";") >>

\* the query or two the second template writes for a table
UpdateQueries(t) ==
    << Query("Update", t,
             "\n\n-- name: Update" \o ToCamel(t.Name) \o " :one"
             \o ProtoType(t.Config) \o "\nUPDATE " \o QualifiedName(t)
             \o "\nSET (" \o ColumnList(t.Columns, 1) \o "\n) = ("
             \o ArgList(t.Columns, 1) \o "\n) " \o WhereKey(t.Config)
             \o " RETURNING *;") >>
    \o (IF t.Config.GenerateFieldMaskUpdate
        THEN << Query("FieldMask", t,
                      "\n-- name: Update" \o ToCamel(t.Name) \o "FieldMask :one"
                      \o ProtoType(t.Config) \o "\nUPDATE " \o QualifiedName(t)
                      \o "\nSET (" \o ColumnList(t.Columns, 1) \o "\n) = ("
                      \o CaseList(t.Columns, 1) \o "\n) " \o WhereKey(t.Config)
                      \o " RETURNING *;") >>
        ELSE <<>>)

RECURSIVE generateGetAndListQueries(_)
generateGetAndListQueries(tables) ==
    IF Len(tables) = 0 THEN <<>>
    ELSE SelectQueries(tables[1]) \o generateGetAndListQueries(Tail(tables))

RECURSIVE generateUpdateQueries(_)
generateUpdateQueries(tables) ==
    IF Len(tables) = 0 THEN <<>>
    ELSE UpdateQueries(tables[1]) \o generateUpdateQueries(Tail(tables))

RECURSIVE Text(_)
\* the bytes of the output buffer
Text(buffer) == IF Len(buffer) = 0 THEN "" ELSE buffer[1].text \o Text(Tail(buffer))

\* the names of the schemas, tables and columns of the generator's inputs
PublicName == <<"p", "u", "b", "l", "i", "c">>
AuditName == <<"a", "u", "d", "i", "t">>
PersonName == <<"p", "e", "r", "s", "o", "n">>
MigrationsName == <<"m", "i", "g", "r", "a", "t", "i", "o", "n", "s">>
RentalLogName == <<"r", "e", "n", "t", "a", "l", "_", "l", "o", "g">>
EventName == <<"e", "v", "e", "n", "t">>
IdName == <<"i", "d">>
UidName == <<"u", "i", "d">>
NameName == <<"n", "a", "m", "e">>
NoName == <<>>

\* querier.ListTableColumnsInSchema: the (table, column) rows of each schema
Catalog ==
    [s \in {PublicName, AuditName} |->
        IF s = PublicName
        THEN << [TableName |-> PersonName, ColumnName |-> IdName],
                [TableName |-> PersonName, ColumnName |-> NameName],
                [TableName |-> MigrationsName, ColumnName |-> IdName] >>
        ELSE << [TableName |-> RentalLogName, ColumnName |-> UidName],
                [TableName |-> EventName, ColumnName |-> UidName],
                [TableName |-> RentalLogName, ColumnName |-> NameName] >>]

\* the table_config entries a configuration file may hold
TableConfigValues ==
    [ProtoName : {"", "v1.Person"}, PrimaryKey : {NoName, UidName},
     GenerateFieldMaskUpdate : BOOLEAN]

\* a map from some of the keys to values
Maps(keys, values) == UNION { [d -> values] : d \in SUBSET keys }

\* the configurations of the schema public
PublicConfigs ==
    [TableConfig : Maps({PersonName}, TableConfigValues),
     DefaultPrimaryKeyColumn : {NoName, IdName},
     SkipTables : {<<>>, <<MigrationsName>>}]

\* the configurations of the schema audit
AuditConfigs ==
    [TableConfig : Maps({EventName},
                        {[ProtoName |-> "", PrimaryKey |-> NoName,
                          GenerateFieldMaskUpdate |-> TRUE]}),
     DefaultPrimaryKeyColumn : {NoName, UidName},
     SkipTables : {<<>>}]

\* cfg.SchemaConfig: public alone, or audit and public
Configurations ==
    { [s \in {PublicName} |-> p] : p \in PublicConfigs }
    \cup
    { [s \in {PublicName, AuditName} |-> IF s = PublicName THEN p ELSE a] :
        p \in PublicConfigs, a \in AuditConfigs }

\* the orders in which a range over a map with these keys may yield them
IterationOrders(keys) ==
    { o \in [1..Cardinality(keys) -> keys] :
        \A i, j \in 1..Cardinality(keys) : i # j => o[i] # o[j] }

\* skip_tables ignored
ShouldSkipNoTable(schemaConfig, tableName) ==
    FALSE

ShouldSkipTable(schemaConfig, tableName) ==
    \E i \in 1..Len(schemaConfig.SkipTables) :
        schemaConfig.SkipTables[i] = tableName

GetTableConfig(schemaConfig, tableName) ==
    IF tableName \in DOMAIN schemaConfig.TableConfig
    THEN schemaConfig.TableConfig[tableName]
    ELSE [ProtoName |-> "", PrimaryKey |-> schemaConfig.DefaultPrimaryKeyColumn,
          GenerateFieldMaskUpdate |-> FALSE]

\* Schema.ProcessRow: the column appended to its table, created when new
ProcessRow(tables, schemaName, tableName, columnName) ==
    IF tableName \in DOMAIN tables
    THEN [tables EXCEPT ![tableName].Columns = Append(@, columnName)]
    ELSE [t \in DOMAIN tables \cup {tableName} |->
            IF t = tableName
            THEN [Schema |-> schemaName, Name |-> tableName,
                  Columns |-> <<columnName>>]
            ELSE tables[t]]

RECURSIVE ProcessRows(_, _, _, _)
ProcessRows(tables, schemaName, rows, i) ==
    IF i > Len(rows) THEN tables
    ELSE ProcessRows(ProcessRow(tables, schemaName, rows[i].TableName,
                                rows[i].ColumnName),
                     schemaName, rows, i + 1)

\* inspectTablesInSchema: the continue in the loop over excludedTableNames
\* leaves that inner loop only, so every listed row is processed
inspectTablesInSchema(cat, schemaName, excludedTableNames) ==
    ProcessRows(<<>>, schemaName,
                IF schemaName \in DOMAIN cat THEN cat[schemaName] ELSE <<>>, 1)

\* the primary key without the fallback to default_primary_key_name
EffectiveKeyNoDefault(schemaConfig, tableConfig) ==
    tableConfig.PrimaryKey

\* the primary key after the two tests of generate
EffectiveKey(schemaConfig, tableConfig) ==
    IF tableConfig.PrimaryKey = NoName
    THEN schemaConfig.DefaultPrimaryKeyColumn
    ELSE tableConfig.PrimaryKey

RECURSIVE TableConfigs(_, _, _, _)
\* the loop of generate over sortedTableNames: the GenerationTables, or the
\* error that ends generate
TableConfigs(schemaConfig, inspected, sortedTableNames, i) ==
    IF i > Len(sortedTableNames) THEN [err |-> FALSE, tables |-> <<>>]
    ELSE IF ShouldSkipTable(schemaConfig, sortedTableNames[i])
    THEN TableConfigs(schemaConfig, inspected, sortedTableNames, i + 1)
    ELSE LET tableName == sortedTableNames[i]
             tableConfig == GetTableConfig(schemaConfig, tableName)
             key == EffectiveKey(schemaConfig, tableConfig)
             rest == TableConfigs(schemaConfig, inspected, sortedTableNames, i + 1)
         IN  IF key = NoName \/ rest.err THEN [err |-> TRUE, tables |-> <<>>]
             ELSE [err |-> FALSE,
                   tables |->
                       << [Schema |-> inspected[tableName].Schema,
                           Name |-> inspected[tableName].Name,
                           Columns |-> inspected[tableName].Columns,
                           Config |-> [tableConfig EXCEPT !.PrimaryKey = key]] >>
                       \o rest.tables]

Header ==
    [kind |-> "header", schema |-> NoName, table |-> NoName, key |-> NoName,
     text |-> "-- File generated by pginspector. DO NOT EDIT.\n\n"]

\* the traversal and the schema graph are not part of a generate run
TraversalIdle ==
    /\ resSet = <<>>
    /\ db = <<>>
    /\ seed = [table |-> "", column |-> "id", identifier |-> ""]
    /\ stack = <<>>
    /\ fullContents = <<>>
    /\ visited = <<>>
    /\ outputs = <<>>
    /\ fetches = <<>>
    /\ accumulated = <<>>
    /\ added = <<>>
    /\ tableOrdering = <<>>
    /\ cancelRequested = FALSE

travVars == <<resSet, db, seed, stack, fullContents, visited, outputs,
              fetches, accumulated, regVars, envVars>>

\* generate up to its loop over the schemas: the header, and the schema
\* names in whatever order the map yields them, then sorted
GenStart ==
    /\ pc = "generate"
    /\ outputBuffer' = <<Header>>
    /\ \E order \in IterationOrders(DOMAIN cfg) :
          sortedSchemaNames' = SortStrings(order)
    /\ schemaIdx' = 1
    /\ pc' = "schemas"
    /\ UNCHANGED <<cfg, catalog, generated, travVars>>

\* one turn of the loop over the schemas that writes its queries
GenSchema ==
    /\ pc = "schemas" /\ schemaIdx <= Len(sortedSchemaNames)
    /\ \E schemaName \in {sortedSchemaNames[schemaIdx]} :
       \E schemaConfig \in {cfg[schemaName]} :
       \E inspectedSchema \in {inspectTablesInSchema(catalog, schemaName,
                                                     schemaConfig.SkipTables)} :
       \E order \in IterationOrders(DOMAIN inspectedSchema) :
       \E r \in {TableConfigs(schemaConfig, inspectedSchema, SortStrings(order), 1)} :
          /\ ~r.err
          /\ outputBuffer' = outputBuffer \o generateGetAndListQueries(r.tables)
                                          \o generateUpdateQueries(r.tables)
    /\ schemaIdx' = schemaIdx + 1
    /\ UNCHANGED <<cfg, catalog, sortedSchemaNames, generated, pc, travVars>>

\* one turn of the loop that finds a table without a primary key: generate
\* returns the error and main exits
GenSchemaFails ==
    /\ pc = "schemas" /\ schemaIdx <= Len(sortedSchemaNames)
    /\ \E schemaName \in {sortedSchemaNames[schemaIdx]} :
       \E schemaConfig \in {cfg[schemaName]} :
       \E inspectedSchema \in {inspectTablesInSchema(catalog, schemaName,
                                                     schemaConfig.SkipTables)} :
       \E order \in IterationOrders(DOMAIN inspectedSchema) :
          TableConfigs(schemaConfig, inspectedSchema, SortStrings(order), 1).err
    /\ pc' = "error"
    /\ UNCHANGED <<cfg, catalog, outputBuffer, sortedSchemaNames, schemaIdx,
                   generated, travVars>>

\* the loop is over: generate returns nil
GenReturn ==
    /\ pc = "schemas" /\ schemaIdx > Len(sortedSchemaNames)
    /\ generated' = Append(generated, outputBuffer)
    /\ pc' = "returned"
    /\ UNCHANGED <<cfg, catalog, outputBuffer, sortedSchemaNames, schemaIdx,
                   travVars>>

\* generate is run again on the same configuration and database
GenAgain ==
    /\ pc = "returned" /\ Len(generated) < MaxRuns
    /\ outputBuffer' = <<>>
    /\ sortedSchemaNames' = <<>>
    /\ schemaIdx' = 0
    /\ pc' = "generate"
    /\ UNCHANGED <<cfg, catalog, generated, travVars>>

GenInit ==
    /\ cfg \in Configurations
    /\ catalog = Catalog
    /\ outputBuffer = <<>>
    /\ sortedSchemaNames = <<>>
    /\ schemaIdx = 0
    /\ generated = <<>>
    /\ pc = "generate"
    /\ TraversalIdle

GenNext == GenStart \/ GenSchema \/ GenSchemaFails \/ GenReturn \/ GenAgain

GenSpec == GenInit /\ [][GenNext]_vars

---------------------------------------------------------------------------
(* main, before the traversal: the schema graph is built from the rows of  *)
(* information_schema.columns, which the query returns in no stated order.  *)

\* a row of getColumns
ColumnRow(tableName, columnName, ordinal, dataType) ==
    [TableName |-> tableName, ColumnName |-> columnName,
     OrdinalPosition |-> ordinal, DataType |-> dataType]

\* the rows of getColumns for person(id text, name varchar) and
\* pet(id text, owner text references person(id)): every value of these
\* tables is a Go string
ColumnRows ==
    { ColumnRow("person", "id", 1, "text"),
      ColumnRow("person", "name", 2, "character varying"),
      ColumnRow("pet", "id", 1, "text"),
      ColumnRow("pet", "owner", 2, "text") }

\* the rows of getSchemaInfo: one per foreign key
SchemaInfoRows ==
    << [TableName |-> "pet", ColumnName |-> "owner",
        ForeignTableName |-> "person", ForeignColumnName |-> "id"] >>

\* the orders in which the database may return the rows of getColumns
ColumnDataOrders ==
    { o \in [1..Cardinality(ColumnRows) -> ColumnRows] :
        \A i, j \in 1..Cardinality(ColumnRows) : i # j => o[i] # o[j] }

\* the databases of person and pet: the pet, if any, has an owner or none
PetDatabases ==
    { [person |-> [k \in 1..np |-> [id |-> 1, name |-> 2]],
       pet |-> [k \in 1..nq |-> [id |-> 3, owner |-> o]]] :
      np \in 0..1, nq \in 0..1, o \in 0..1 }

RECURSIVE TableNamesOf(_, _)
\* the loop that collects tableNames, from the rest of columnData
TableNamesOf(columnData, tableNames) ==
    IF Len(columnData) = 0 THEN tableNames
    ELSE TableNamesOf(Tail(columnData),
                      IF contains(tableNames, columnData[1].TableName)
                      THEN tableNames
                      ELSE Append(tableNames, columnData[1].TableName))

RECURSIVE ForeignOf(_, _, _, _)
\* the loop over schemaData: the last row for the column wins
ForeignOf(schemaData, tableName, columnName, found) ==
    IF Len(schemaData) = 0 THEN found
    ELSE ForeignOf(Tail(schemaData), tableName, columnName,
                   IF /\ schemaData[1].TableName = tableName
                      /\ schemaData[1].ColumnName = columnName
                   THEN <<schemaData[1].ForeignTableName,
                          schemaData[1].ForeignColumnName>>
                   ELSE found)

RECURSIVE ColumnInfo(_, _, _)
\* columnInfo of one table: its rows in the order columnData has them
ColumnInfo(columnData, schemaData, tableName) ==
    IF Len(columnData) = 0 THEN <<>>
    ELSE (IF columnData[1].TableName = tableName
          THEN LET foreign == ForeignOf(schemaData, tableName,
                                        columnData[1].ColumnName, <<"", "">>)
               IN  << Column(columnData[1].ColumnName, columnData[1].DataType,
                             foreign[1], foreign[2],
                             columnData[1].OrdinalPosition) >>
          ELSE <<>>)
         \o ColumnInfo(Tail(columnData), schemaData, tableName)

RECURSIVE InsertByOrdinal(_, _)
InsertByOrdinal(sorted, row) ==
    IF Len(sorted) = 0 THEN <<row>>
    ELSE IF row.OrdinalPosition < sorted[1].OrdinalPosition
         THEN <<row>> \o sorted
         ELSE <<sorted[1]>> \o InsertByOrdinal(Tail(sorted), row)

RECURSIVE SortByOrdinal(_)
\* sort.Slice(columnData, by OrdinalPosition): rows of one table have
\* different positions, so the order it leaves among the rows of different
\* tables does not show in any column list
SortByOrdinal(columnData) ==
    IF Len(columnData) = 0 THEN <<>>
    ELSE InsertByOrdinal(SortByOrdinal(SubSeq(columnData, 1, Len(columnData) - 1)),
                         columnData[Len(columnData)])

RECURSIVE BuildTables(_, _, _, _)
\* the loop over tableNames: columnInfo is taken from columnData as it
\* stands, columnData is sorted afterwards, the table is added
BuildTables(tableNames, columnData, schemaData, tables) ==
    IF Len(tableNames) = 0 THEN tables
    ELSE BuildTables(Tail(tableNames), SortByOrdinal(columnData), schemaData,
                     AddTable(tables,
                              [Name |-> tableNames[1],
                               Columns |-> ColumnInfo(columnData, schemaData,
                                                      tableNames[1])]).Tables)

\* main up to its call of traverseTables
InspectSchema ==
    /\ pc = "inspect"
    /\ \E columnData \in ColumnDataOrders :
          resSet' = BuildTables(TableNamesOf(columnData, <<>>), columnData,
                                SchemaInfoRows, <<>>)
    /\ stack' = <<Frame(seed.table, seed.column, seed.identifier, "seed")>>
    /\ pc' = "traverse"
    /\ UNCHANGED <<regVars, genVars, envVars>>
    /\ UNCHANGED <<db, seed, fullContents, visited, outputs, fetches,
                   accumulated>>

InspectInit ==
    /\ db \in PetDatabases
    /\ \E t \in {"person", "pet"} : \E v \in SeedIds(db[t]) :
          seed = [table |-> t, column |-> "id", identifier |-> PgText("text", v)]
    /\ resSet = <<>>
    /\ stack = <<>>
    /\ fullContents = <<>>
    /\ visited = <<>>
    /\ pc = "inspect"
    /\ outputs = <<>>
    /\ fetches = <<>>
    /\ accumulated = <<>>
    /\ added = <<>>
    /\ tableOrdering = <<>>
    /\ cancelRequested = FALSE
    /\ GenIdle

\* no query of these runs fails and no call nests deeper than the tables
\* are many: the two aborts of the traversal have no step here
InspectNext ==
    \/ InspectSchema
    \/ Fetch
    \/ ExpandForward
    \/ ExpandBackward
    \/ Return
    \/ Emit
    \/ Again

InspectSpec == InspectInit /\ [][InspectNext]_vars

---------------------------------------------------------------------------
(* Notions the properties below are stated with.                           *)

\* the first extraction of the process: up to and including its output
FirstRun == Len(outputs) = 0 \/ (Len(outputs) = 1 /\ pc = "done")

\* table t has a foreign-key column that points at table u
PointsAt(t, u) ==
    \E i \in 1..Len(resSet) :
        /\ resSet[i].Name = t
        /\ \E c \in 1..Len(resSet[i].Columns) :
               resSet[i].Columns[c].PointsToTable = u

\* the row of the seed table the seed value names, 0 when there is none
SeedRow == QueryRow(resSet, db, seed.table, seed.column, seed.identifier)

AllRows == UNION { { <<t, k>> : k \in 1..Len(db[t]) } : t \in DOMAIN db }

\* row j of table u holds, in a foreign-key column that points at table t,
\* the value row k of t has in the referenced column
RefersTo(u, j, t, k) ==
    \E i \in 1..Len(resSet) :
        /\ resSet[i].Name = u
        /\ \E c \in 1..Len(resSet[i].Columns) :
               LET col == resSet[i].Columns[c] IN
               /\ col.PointsToTable = t
               /\ db[u][j][col.Name] # NULL
               /\ db[u][j][col.Name] = db[t][k][col.PointsToColumn]

RECURSIVE Closure(_)
\* the rows connected to the rows of S by references in either direction
Closure(S) ==
    LET T == S \cup { n \in AllRows :
                        \E m \in S : \/ RefersTo(n[1], n[2], m[1], m[2])
                                     \/ RefersTo(m[1], m[2], n[1], n[2]) }
    IN  IF T = S THEN S ELSE Closure(T)

Reachable == IF SeedRow = 0 THEN {} ELSE Closure({ <<seed.table, SeedRow>> })

---------------------------------------------------------------------------
(* The properties.                                                         *)

\* a row of the database has been accumulated for table t
Populated(t) ==
    \E k \in 1..Len(accumulated) :
        accumulated[k].table = t /\ accumulated[k].row # 0

\* C1: in every emitted statement sequence, for two distinct tables T and U
\* that both hold extracted rows and where T has a foreign-key column
\* pointing at U, the statement of U comes strictly before the statement
\* of T, whatever the registration order.
C1_ReferencedTableFirst ==
    \A r \in 1..Len(outputs) : \A i, j \in 1..Len(outputs[r]) :
        ( /\ outputs[r][i].TableName # outputs[r][j].TableName
          /\ Populated(outputs[r][i].TableName)
          /\ Populated(outputs[r][j].TableName)
          /\ PointsAt(outputs[r][i].TableName, outputs[r][j].TableName) )
        => j < i

\* C2: when the first extraction has printed its statements, every row
\* connected to the seed row by foreign-key references in either direction
\* has been accumulated, also when several rows reference the same row.
C2_ReachableRowsExtracted ==
    (pc = "done" /\ Len(outputs) = 1) =>
        \A n \in Reachable :
            \E k \in 1..Len(accumulated) :
                accumulated[k].table = n[1] /\ accumulated[k].row = n[2]

\* C3: during one extraction no database row is accumulated twice for its
\* table.
C3_NoRowTwice ==
    FirstRun =>
        \A i, j \in 1..Len(accumulated) :
            ( /\ i # j
              /\ accumulated[i].row # 0
              /\ accumulated[i].table = accumulated[j].table )
            => accumulated[i].row # accumulated[j].row

\* C4: every traversal ends with no call pending: traverseTables returns
\* and the statements are printed, or a failed query aborts it.
C4_Terminates == <>(pc \in {"done", "panic"})

\* C5: within one extraction no two fetches have the same table, the same
\* filter column and the same identifier value.
C5_FetchedOnce ==
    FirstRun =>
        \A i, j \in 1..Len(fetches) :
            ( /\ i # j
              /\ fetches[i].table = fetches[j].table
              /\ fetches[i].column = fetches[j].column )
            => fetches[i].identifier # fetches[j].identifier

\* the table registered under the name t
TableNamed(t) == resSet[GetTableIndexByName(resSet, t)]

\* the values row the decoder produces for row k of table t
RowText(t, k) ==
    Join(Literals(DecodeRow(TableNamed(t).Columns,
                            Scan(db[t][k], FieldNames(TableNamed(t)), 1), 1)),
         ", ")

\* the row of table t whose id is v
RowWithId(t, v) == CHOOSE k \in 1..Len(db[t]) : db[t][k].id = v

\* C6: in the schema manufacturer, model, vehicle with uuid keys, from the
\* seed vehicle.id = V1 where V1 exists and references a manufacturer and
\* a model, the first extraction prints exactly three statements, the one
\* of vehicle last, each with exactly one values row: the manufacturer and
\* the model V1 references and V1 itself.
C6_VehicleScenario ==
    ( /\ pc = "done" /\ Len(outputs) = 1
      /\ seed.table = "vehicle" /\ SeedRow # 0
      /\ TableNamed("vehicle").Columns[1].Type = "uuid"
      /\ db["vehicle"][SeedRow].make # NULL
      /\ db["vehicle"][SeedRow].model # NULL )
    => LET out == outputs[1]
           v1 == db["vehicle"][SeedRow]
           expected == [manufacturer |-> RowText("manufacturer",
                                                 RowWithId("manufacturer", v1.make)),
                        model |-> RowText("model", RowWithId("model", v1.model)),
                        vehicle |-> RowText("vehicle", SeedRow)]
       IN  /\ Len(out) = 3
           /\ { out[i].TableName : i \in 1..Len(out) } =
                  {"manufacturer", "model", "vehicle"}
           /\ out[Len(out)].TableName = "vehicle"
           /\ \A i \in 1..Len(out) :
                  out[i].ValuesRows = <<expected[out[i].TableName]>>

\* C7: when the seed value matches no row of the seed table, the first
\* extraction populates no table, is not aborted by an error and prints
\* the empty statement sequence.
C7_AbsentSeedEmpty ==
    (FirstRun /\ SeedRow = 0) =>
        /\ fullContents = <<>>
        /\ pc # "panic"
        /\ Len(outputs) = 1 => outputs[1] = <<>>

\* C8: the second loop never follows a foreign-key column whose value is
\* null: no call made by that loop, pending or fetched, carries the
\* identifier of a null value, and visited never holds it.
C8_NullNeverFollowed ==
    /\ ~contains(visited, NilString)
    /\ \A i \in 1..Len(stack) :
          stack[i].via = "backward" => stack[i].identifier # NilString
    /\ \A i \in 1..Len(fetches) :
          fetches[i].via = "backward" => fetches[i].identifier # NilString

\* a fetched vehicle row whose model is null has been through the second
\* loop, and the extraction has come to its end
C8_Witness ==
    /\ pc = "done"
    /\ \E k \in 1..Len(accumulated) :
          /\ accumulated[k].table = "vehicle"
          /\ accumulated[k].row # 0
          /\ db["vehicle"][accumulated[k].row].model = NULL
          /\ db["vehicle"][accumulated[k].row].make # NULL

\* C9: every null value of an accumulated row, whatever the declared type
\* of its column, is rendered as the bare keyword NULL, and was resolved
\* before the dispatch on the type: no type branch received it.
C9_NullBeforeDispatch ==
    \A k \in 1..Len(accumulated) :
        \A i \in 1..Len(accumulated[k].decoded) :
            LET d == accumulated[k].decoded[i] IN
            /\ d.value = NULL => (d.literal = "NULL" /\ d.branch = "nil")
            /\ d.branch # "nil" => d.value # NULL

\* a row of the database with a null in a json column and in a timestamp
\* column has been decoded
C9_Witness ==
    \E k \in 1..Len(accumulated) :
        /\ accumulated[k].row # 0
        /\ \E i, j \in 1..Len(accumulated[k].decoded) :
              /\ accumulated[k].decoded[i].value = NULL
              /\ accumulated[k].decoded[i].type = "jsonb"
              /\ accumulated[k].decoded[j].value = NULL
              /\ accumulated[k].decoded[j].type \in TimestampTypes

\* C10: the second extraction of a process, from the same seed on the same
\* database, prints the statement sequence the first one printed.
C10_SameOutputTwice ==
    Len(outputs) = 2 => outputs[1] = outputs[2]

\* C11: a call of AddTable with a name that is already registered panics
\* and leaves the table list as it was before the call; and no two
\* registered tables share a name.
C11_DuplicateTableRejected ==
    /\ \A k \in 1..Len(added) :
          (\E i \in 1..Len(added[k].before) :
               added[k].before[i].Name = added[k].table.Name)
          => (added[k].panicked /\ added[k].after = added[k].before)
    /\ \A i, j \in 1..Len(resSet) :
          i # j => resSet[i].Name # resSet[j].Name

\* person is registered a second time, with another description, after
\* two tables were registered
C11_Witness ==
    /\ pc = "panic"
    /\ Len(resSet) = 2
    /\ added[Len(added)].table = PersonTableShort
    /\ \E i \in 1..Len(resSet) : resSet[i] = PersonTable

\* the names of the registered tables that the table named t points to
DependenciesOf(t) ==
    { u \in { resSet[i].Name : i \in 1..Len(resSet) } : PointsAt(t, u) }

RECURSIVE DependencyClosure(_)
\* the names reached from the names of S along foreign keys
DependencyClosure(S) ==
    LET T == S \cup UNION { DependenciesOf(t) : t \in S }
    IN  IF T = S THEN S ELSE DependencyClosure(T)

\* some registered table reaches itself along foreign keys
CycleInGraph ==
    \E i \in 1..Len(resSet) :
        resSet[i].Name \in DependencyClosure(DependenciesOf(resSet[i].Name))

\* C12: with every registered table populated, DetermineInsertTableOrder
\* returns no order when the foreign-key graph has a cycle: it fails.
C12_CycleDetected ==
    pc = "ordered" => ~CycleInGraph

\* the database cannot read the literal of the logged query as a value of
\* the filter column's type
Unreadable(fe) ==
    ~ValidInput(GetColumnByName(TableNamed(fe.table), fe.column).Type,
                fe.identifier)

Extracted(t, k) ==
    \E a \in 1..Len(accumulated) :
        accumulated[a].table = t /\ accumulated[a].row = k

\* C14: the guard is keyed by (table, identifier): when the first
\* extraction has printed its statements, every row that a non-null foreign
\* key of an extracted row references has been extracted too, also when a
\* row of another table carries the same identifier value.
C14_GuardKeyedByTable ==
    (pc = "done" /\ Len(outputs) = 1) =>
        \A n \in AllRows : \A m \in AllRows :
            (Extracted(n[1], n[2]) /\ RefersTo(n[1], n[2], m[1], m[2]))
            => Extracted(m[1], m[2])

\* C15: every extraction of a process starts from an empty visited list and
\* an empty accumulation: before its first query neither holds anything of
\* an earlier extraction.
C15_FreshSession ==
    (pc = "traverse" /\ fetches = <<>>) =>
        (visited = <<>> /\ fullContents = <<>>)

\* the names of the tables the database lists for a schema
TablesOf(schemaName) ==
    IF schemaName \in DOMAIN catalog
    THEN { catalog[schemaName][i].TableName : i \in 1..Len(catalog[schemaName]) }
    ELSE {}

\* the tables of a schema that generate processes
Processed(schemaName) ==
    { t \in TablesOf(schemaName) :
        \A i \in 1..Len(cfg[schemaName].SkipTables) :
            cfg[schemaName].SkipTables[i] # t }

\* the key the configuration gives a table: its primary_key when that is
\* set, the schema's default_primary_key_name otherwise
ConfiguredKey(schemaName, t) ==
    LET own == IF t \in DOMAIN cfg[schemaName].TableConfig
               THEN cfg[schemaName].TableConfig[t].PrimaryKey
               ELSE NoName
    IN  IF own # NoName THEN own ELSE cfg[schemaName].DefaultPrimaryKeyColumn

\* the end of the text of a query that filters on the key
KeyClause(q) ==
    "WHERE " \o Str(ConfiguredKey(q.schema, q.table)) \o " = pggen.arg('"
    \o Str(ConfiguredKey(q.schema, q.table)) \o "')"
    \o (IF q.kind = "ByID" THEN ";" ELSE " RETURNING *;")

\* the text of a written query up to its WHERE clause
BeforeKeyClause(q) ==
    LET t == [Schema |-> q.schema, Name |-> q.table,
              Columns |-> inspectTablesInSchema(catalog, q.schema, <<>>)[q.table].Columns,
              Config |-> GetTableConfig(cfg[q.schema], q.table)]
        head == "-- name: " \o (IF q.kind = "ByID" THEN "Select" ELSE "Update")
                \o ToCamel(q.table)
                \o (CASE q.kind = "ByID" -> "ByID" [] q.kind = "Update" -> ""
                       [] OTHER -> "FieldMask")
                \o " :one" \o ProtoType(t.Config) \o "\n"
    IN  CASE q.kind = "ByID" ->
               "\n\n" \o head \o "SELECT" \o ColumnList(t.Columns, 1)
               \o "\nFROM " \o QualifiedName(t) \o "\n"
          [] q.kind = "Update" ->
               "\n\n" \o head \o "UPDATE " \o QualifiedName(t) \o "\nSET ("
               \o ColumnList(t.Columns, 1) \o "\n) = (" \o ArgList(t.Columns, 1)
               \o "\n) "
          [] OTHER ->
               "\n" \o head \o "UPDATE " \o QualifiedName(t) \o "\nSET ("
               \o ColumnList(t.Columns, 1) \o "\n) = (" \o CaseList(t.Columns, 1)
               \o "\n) "

\* C16: every written ByID and Update query filters on the table's
\* configured primary_key when that is set and on the schema's
\* default_primary_key_name otherwise, never on an empty column; generate
\* ends with an error exactly when a processed table of the schema at hand
\* has neither, and returns nil only when no processed table lacks a key.
C16_PrimaryKeyChosen ==
    /\ \A i \in 1..Len(outputBuffer) :
          outputBuffer[i].kind \in {"ByID", "Update", "FieldMask"} =>
              /\ ConfiguredKey(outputBuffer[i].schema, outputBuffer[i].table) # NoName
              /\ outputBuffer[i].text =
                     BeforeKeyClause(outputBuffer[i]) \o KeyClause(outputBuffer[i])
    /\ pc = "error" =>
          \E t \in Processed(sortedSchemaNames[schemaIdx]) :
              ConfiguredKey(sortedSchemaNames[schemaIdx], t) = NoName
    /\ pc = "returned" =>
          \A n \in DOMAIN cfg : \A t \in Processed(n) :
              ConfiguredKey(n, t) # NoName

\* person has a table_config entry with no field set, the default key is
\* id, and the queries of person were written with id
C16_Witness ==
    /\ pc = "returned"
    /\ PersonName \in DOMAIN cfg[PublicName].TableConfig
    /\ cfg[PublicName].TableConfig[PersonName] =
           [ProtoName |-> "", PrimaryKey |-> NoName,
            GenerateFieldMaskUpdate |-> FALSE]
    /\ cfg[PublicName].DefaultPrimaryKeyColumn = IdName
    /\ \E i \in 1..Len(outputBuffer) :
          /\ outputBuffer[i].kind = "Update"
          /\ outputBuffer[i].table = PersonName
          /\ outputBuffer[i].key = IdName

\* how many queries of a kind the buffer holds for a table
Count(kind, schemaName, t) ==
    Cardinality({ i \in 1..Len(outputBuffer) :
                    /\ outputBuffer[i].kind = kind
                    /\ outputBuffer[i].schema = schemaName
                    /\ outputBuffer[i].table = t })

\* the schemas whose turn of the loop has ended with its queries written
WrittenSchemas ==
    { sortedSchemaNames[j] : j \in 1..(schemaIdx - 1) }

\* whether the configuration asks for a field-mask update of a table
WantsFieldMask(schemaName, t) ==
    /\ t \in DOMAIN cfg[schemaName].TableConfig
    /\ cfg[schemaName].TableConfig[t].GenerateFieldMaskUpdate

\* C17: once the turn of a schema has ended, the buffer holds for each of its
\* tables that is not skipped exactly one ByID, one List and one Update
\* query, and one FieldMask query exactly when generate_field_mask_update is
\* set; it holds none for a skipped table; every Select query of a schema
\* comes before every Update query of that schema; the header is the first
\* thing written and is written once.
C17_QueriesPerTable ==
    /\ \A n \in WrittenSchemas : \A t \in TablesOf(n) :
          \A kind \in {"ByID", "List", "Update", "FieldMask"} :
              Count(kind, n, t) =
                  IF t \notin Processed(n) THEN 0
                  ELSE IF kind = "FieldMask" /\ ~WantsFieldMask(n, t) THEN 0
                  ELSE 1
    /\ \A i \in 1..Len(outputBuffer) :
          /\ outputBuffer[i].kind = "header" <=> i = 1
          /\ i = 1 => outputBuffer[i] = Header
          /\ i > 1 => /\ outputBuffer[i].schema \in WrittenSchemas
                      /\ outputBuffer[i].table \in TablesOf(outputBuffer[i].schema)
    /\ \A i, j \in 1..Len(outputBuffer) :
          /\ outputBuffer[i].schema = outputBuffer[j].schema
          /\ outputBuffer[i].kind \in {"ByID", "List"}
          /\ outputBuffer[j].kind \in {"Update", "FieldMask"}
          => i < j
    /\ pc \in {"schemas", "returned", "error"} => Len(outputBuffer) >= 1

\* a run that returned nil with migrations skipped, person written with its
\* four queries and the two tables of audit written after it
C17_Witness ==
    /\ pc = "returned"
    /\ AuditName \in DOMAIN cfg
    /\ MigrationsName \notin Processed(PublicName)
    /\ Count("FieldMask", PublicName, PersonName) = 1
    /\ Count("FieldMask", AuditName, EventName) = 1
    /\ Count("FieldMask", AuditName, RentalLogName) = 0
    /\ Count("List", AuditName, RentalLogName) = 1
    /\ Count("ByID", PublicName, MigrationsName) = 0

\* ascending or equal in the byte order of sort.Strings
AtMost(a, b) == a = b \/ Less(a, b)

\* C18: whatever order the ranges over the configuration map and over the
\* inspected tables yield, the queries are written schema by schema in
\* ascending schema name and, within each of the two blocks of a schema, in
\* ascending table name; a second run over the same configuration and
\* database writes the same text as the first.
C18_DeterministicOrder ==
    /\ \A i, j \in 2..Len(outputBuffer) :
          i < j =>
            /\ AtMost(outputBuffer[i].schema, outputBuffer[j].schema)
            /\ ( /\ outputBuffer[i].schema = outputBuffer[j].schema
                 /\ (outputBuffer[i].kind \in {"ByID", "List"})
                      = (outputBuffer[j].kind \in {"ByID", "List"}) )
               => AtMost(outputBuffer[i].table, outputBuffer[j].table)
    /\ \A i \in 1..Len(sortedSchemaNames) : \A j \in 1..Len(sortedSchemaNames) :
          i < j => Less(sortedSchemaNames[i], sortedSchemaNames[j])
    /\ Len(generated) = 2 => Text(generated[1]) = Text(generated[2])

\* two runs have returned, each wrote audit before public, event before
\* rental_log and migrations before person
C18_Witness ==
    /\ Len(generated) = 2
    /\ \E a, b, c, d \in 2..Len(generated[2]) :
          /\ a < b /\ b < c /\ c < d
          /\ generated[2][a].table = EventName
          /\ generated[2][b].table = RentalLogName
          /\ generated[2][c].table = MigrationsName
          /\ generated[2][d].table = PersonName
          /\ generated[2][d].kind = "ByID"

RECURSIVE RowsAppended(_)
\* how many rows the accumulation holds over all its tables
RowsAppended(fc) ==
    IF Len(fc) = 0 THEN 0 ELSE Len(fc[1].ValuesRows) + RowsAppended(Tail(fc))

\* a call that is past its query and whose query matched no row
AbsentCall(f) == f.pc # "fetch" /\ f.resultData = EmptyMap

\* C19: a call on a non-seed branch whose query matches no row appends no
\* row to the accumulation and starts no call of its own: during the first
\* extraction of a seed that exists, the accumulation holds one row per
\* query that matched, and a call without a row is never below another call
\* on the stack.
C19_AbsentBranchEnds ==
    (FirstRun /\ Len(fetches) >= 1 /\ fetches[1].row # 0) =>
        /\ RowsAppended(fullContents) =
               Cardinality({ k \in 1..Len(fetches) : fetches[k].row # 0 })
        /\ \A n \in 1..Len(stack) :
               (stack[n].via # "seed" /\ AbsentCall(stack[n])) => n = Len(stack)

\* the columns of table number m of the schema graph that point at table c
PointersTo(m, c) ==
    { k \in 1..Len(resSet[m].Columns) : resSet[m].Columns[k].PointsToTable = c }

\* the step pushes a call made by the first loop of the call on top
ForwardCall ==
    /\ Len(stack') = Len(stack) + 1
    /\ stack'[Len(stack')].via = "forward"

PopulatedTables == { fullContents[i].TableName : i \in 1..Len(fullContents) }

\* C21: the order the orderer returns after the first extraction of a seed
\* that exists holds exactly the tables the session populated, each once.
C21_OrderOfPopulatedTables ==
    (pc = "done" /\ Len(outputs) = 1 /\ fetches[1].row # 0) =>
        LET order == DetermineInsertTableOrder(resSet)
        IN  /\ { order[i] : i \in 1..Len(order) } = PopulatedTables
            /\ \A i, j \in 1..Len(order) : order[i] = order[j] => i = j

\* the table names of the registration runs, in ascending byte order
NamesAscending == <<"a", "b", "manufacturer", "person", "vehicle">>

\* where a name stands in ascending order
NameRank(name) == CHOOSE i \in 1..Len(NamesAscending) : NamesAscending[i] = name

\* the tables not among the first n of the order whose registered
\* dependencies are all among the first n
ReadyAfter(order, n) ==
    { t \in { resSet[i].Name : i \in 1..Len(resSet) } :
        /\ \A i \in 1..n : order[i] # t
        /\ \A u \in DependenciesOf(t) : \E i \in 1..n : order[i] = u }

\* C22: in the order returned for an acyclic schema graph, each table is the
\* one with the smallest name among the tables whose dependencies all come
\* before it, and registering the same tables in any other order gives the
\* same result.
C22_TiesByName ==
    (pc = "ordered" /\ ~CycleInGraph) =>
        /\ \A n \in 1..Len(tableOrdering) :
              \A t \in ReadyAfter(tableOrdering, n - 1) :
                  NameRank(tableOrdering[n]) <= NameRank(t)
        /\ \A p \in RegistrationOrders(resSet) :
              DetermineInsertTableOrder(Registered(resSet, p)) = tableOrdering

\* the literal rows fetched for a table since the process started, in the
\* order of the fetches
RowsFetchedFor(t) ==
    LET mine == SelectSeq(accumulated, LAMBDA a : a.table = t)
    IN  [i \in 1..Len(mine) |-> Join(Literals(mine[i].decoded), ", ")]

\* the statements an emission printed for a table
StatementsOf(out, t) == { i \in 1..Len(out) : out[i].TableName = t }

\* C23: the accumulation never holds two entries for one table name; the
\* entry of a table holds the rows fetched for it in the order of their
\* fetches; an emission prints one statement for each table of the
\* accumulation and no other, and the VALUES list of that statement is the
\* parenthesised rows of the entry, in their order.
C23_OneStatementPerTable ==
    /\ \A i, j \in 1..Len(fullContents) :
          fullContents[i].TableName = fullContents[j].TableName => i = j
    /\ \A i \in 1..Len(fullContents) :
          fullContents[i].ValuesRows = RowsFetchedFor(fullContents[i].TableName)
    /\ pc = "done" =>
          LET out == outputs[Len(outputs)]
          IN  /\ Len(out) = Len(fullContents)
              /\ \A i \in 1..Len(fullContents) :
                    \E k \in 1..Len(out) :
                       /\ StatementsOf(out, fullContents[i].TableName) = {k}
                       /\ out[k].ValuesRows = fullContents[i].ValuesRows
                       /\ out[k].stmt =
                            "INSERT\nINTO \"public\".\"" \o fullContents[i].TableName
                            \o "\"("
                            \o Join([c \in 1..Len(fullContents[i].InsertColumnNames) |->
                                       "\"" \o fullContents[i].InsertColumnNames[c] \o "\""],
                                    ",")
                            \o ")\nVALUES\n"
                            \o ParenJoin(RowsFetchedFor(fullContents[i].TableName))
                            \o "\n;"

\* an emission with two tables, one of them with two rows
C23_Witness ==
    /\ pc = "done"
    /\ Len(outputs) = 1
    /\ Len(outputs[1]) >= 2
    /\ \E k \in 1..Len(outputs[1]) :
          /\ Len(outputs[1][k].ValuesRows) >= 2
          /\ outputs[1][k].ValuesRows[1] # outputs[1][k].ValuesRows[2]

\* C24: in every fetched row the column list of the table is in declared
\* ordinal order, and the i-th value decoded is the database's value of the
\* i-th column of that list, decoded with the type that column declares.
C24_ColumnsAligned ==
    \A n \in 1..Len(accumulated) :
        accumulated[n].row # 0 =>
            LET t == accumulated[n].table
                names == fullContents[ContentsIndex(fullContents, t)].InsertColumnNames
            IN  /\ names = FieldNames(TableNamed(t))
                /\ \A i \in 1..Len(names) :
                      /\ accumulated[n].decoded[i].value
                            = db[t][accumulated[n].row][names[i]]
                      /\ accumulated[n].decoded[i].type
                            = GetColumnByName(TableNamed(t), names[i]).Type

\* the texts a value may be quoted from
Bodies(v) == {TextOf(v), UuidString(v), TimeFormat(v), JsonMarshal(v)}

\* C25: the literal of a non-null value of an integer column is its decimal
\* form without quotes; the literal of a non-null value of a text, uuid,
\* timestamp or json column is single-quoted.
C25_IntegerUnquoted ==
    \A n \in 1..Len(accumulated) :
        \A i \in 1..Len(accumulated[n].decoded) :
            LET d == accumulated[n].decoded[i] IN
            d.value # NULL =>
                IF d.type = "integer"
                THEN d.literal = Decimal(d.value)
                ELSE \E body \in Bodies(d.value) :
                        d.literal = "'" \o body \o "'"

\* C26: a violated invariant of the schema graph never ends the process:
\* whatever tables are registered, and however often, the program does not
\* panic, and a rejected registration leaves it running.
C26_NoPanic ==
    /\ pc # "panic"
    /\ \A i \in 1..Len(added) : added[i].panicked => pc = "register"

\* the names in a schema's skip_tables
SkippedNames(schemaName) ==
    { cfg[schemaName].SkipTables[i] : i \in 1..Len(cfg[schemaName].SkipTables) }

\* C28: for every schema generate has processed, the Schema that
\* inspectTablesInSchema returned holds no table named in skip_tables, and
\* the buffer holds no query for such a table.
C28_SkippedAtBothStages ==
    \A n \in WrittenSchemas :
        /\ DOMAIN inspectTablesInSchema(catalog, n, cfg[n].SkipTables)
              \cap SkippedNames(n) = {}
        /\ \A i \in 2..Len(outputBuffer) :
              outputBuffer[i].schema = n
                  => outputBuffer[i].table \notin SkippedNames(n)

\* C27: once the caller has asked for cancellation no further query is
\* started and no statement is printed: the extraction does not go on to
\* its output.
C27_CancellationObserved ==
    [][cancelRequested =>
          /\ Len(fetches') <= Len(fetches)
          /\ outputs' = outputs
          /\ pc' # "done"]_vars

===========================================================================
